---------------------------- MODULE Spec2Model ----------------------------
(***************************************************************************)
(* Ministry of Truth backend: an HTTP proxy in front of a news API and a   *)
(* chat-completion API.  Two deployments of the same handlers are          *)
(* modelled: the gorilla/mux server of main.go and the serverless          *)
(* function Handler.  Strings are sequences of one-character strings, so   *)
(* that formatting (Sprintf), prefix tests and URL parsing are computed.   *)
(***************************************************************************)
EXTENDS Integers, Sequences, FiniteSets, TLC

\* ----------------------------------------------------------------- bounds
\* Longest client-supplied string (category, q, title, description).
MaxStrLen == 2
\* Most choices in one completion response.
MaxChoices == 2
\* Most articles in one news result.
MaxArticles == 2

\* ---------------------------------------------------------------- strings
\* Characters a client-supplied string is made of: a letter and the two
\* characters that structure a URL query.
Chars == {"a", "&", "="}

\* Every string over Chars of length at most n.
StrsUpTo(n) == UNION {[1..k -> Chars] : k \in 0..n}

Strs == StrsUpTo(MaxStrLen)

EmptyStr == <<>>

\* strings.HasPrefix
HasPrefix(s, prefix) ==
    /\ Len(s) >= Len(prefix)
    /\ SubSeq(s, 1, Len(prefix)) = prefix

\* strings.Index: the first position at which sub occurs in s, or 0.
Index(s, sub) ==
    IF \E i \in 1..(Len(s) - Len(sub) + 1) : SubSeq(s, i, i + Len(sub) - 1) = sub
    THEN CHOOSE i \in 1..(Len(s) - Len(sub) + 1) :
            /\ SubSeq(s, i, i + Len(sub) - 1) = sub
            /\ \A j \in 1..(i - 1) : SubSeq(s, j, j + Len(sub) - 1) # sub
    ELSE 0

\* strings.Replace(s, old, new, 1): the first occurrence of old replaced
\* (an empty old matches at the start of s).
Replace1(s, old, new) ==
    IF Index(s, old) = 0 THEN s
    ELSE SubSeq(s, 1, Index(s, old) - 1) \o new
         \o SubSeq(s, Index(s, old) + Len(old), Len(s))

\* strings.Contains
Contains(s, sub) ==
    \E i \in 1..(Len(s) - Len(sub) + 1) : SubSeq(s, i, i + Len(sub) - 1) = sub

\* ------------------------------------------------------- literal strings
HealthPath == <<"/","h","e","a","l","t","h">>
ApiHealthPath == <<"/","a","p","i","/","h","e","a","l","t","h">>
HeadlinesPath == <<"/","a","p","i","/","n","e","w","s","/","h","e","a","d","l","i","n","e","s">>
SearchPath == <<"/","a","p","i","/","n","e","w","s","/","s","e","a","r","c","h">>
TransformPath == <<"/","a","p","i","/","t","r","a","n","s","f","o","r","m">>
NewsBase == <<"h","t","t","p","s",":","/","/","n","e","w","s","a","p","i",".","o","r","g","/","v","2">>
ApiKeyParam == <<"&","a","p","i","K","e","y","=">>
HeadlinesEndpoint == <<"/","t","o","p","-","h","e","a","d","l","i","n","e","s","?","c","o","u","n","t","r","y","=","u","s">>
CategoryParam == <<"&","c","a","t","e","g","o","r","y","=">>
SearchEndpoint == <<"/","e","v","e","r","y","t","h","i","n","g","?","q","=">>
UserPrefix == <<"T","r","a","n","s","f","o","r","m"," ","t","h","i","s"," ","n","e","w","s",":"," ","T","i","t","l","e",":"," ">>
UserMiddle == <<","," ","D","e","s","c","r","i","p","t","i","o","n",":"," ">>
Redacted == <<"[","R","E","D","A","C","T","E","D","]">>
BearerPrefix == <<"B","e","a","r","e","r"," ">>
OpenAIURL == <<"h","t","t","p","s",":","/","/","a","p","i",".","o","p","e","n","a","i",".","c","o","m","/","v","1","/","c","h","a","t","/","c","o","m","p","l","e","t","i","o","n","s">>
\* The system prompt is one fixed text; its wording plays no part.
systemPrompt == <<"You are the Ministry of Truth ...">>

\* ------------------------------------------------------------ environment
\* Values NEWS_API_KEY and OPENAI_API_KEY can have: unset/empty, or a key.
\* (the key "a" is one whose text also occurs in the fixed part of the
\* upstream URL and in client-supplied strings)
NewsKeyValues == {EmptyStr, <<"N","1">>, <<"a">>}
OpenAIKeyValues == {EmptyStr, <<"O","1">>}

Envs == [NEWS_API_KEY : NewsKeyValues, OPENAI_API_KEY : OpenAIKeyValues]

NoConfig == [err |-> "none", NewsAPIKey |-> EmptyStr, OpenAIAPIKey |-> EmptyStr]

\* loadConfig: the first missing variable is the error; else the two keys.
loadConfig(e) ==
    IF e.NEWS_API_KEY = EmptyStr
    THEN [err |-> "NEWS_API_KEY environment variable is required",
          NewsAPIKey |-> EmptyStr, OpenAIAPIKey |-> EmptyStr]
    ELSE IF e.OPENAI_API_KEY = EmptyStr
    THEN [err |-> "OPENAI_API_KEY environment variable is required",
          NewsAPIKey |-> EmptyStr, OpenAIAPIKey |-> EmptyStr]
    ELSE [err |-> "nil",
          NewsAPIKey |-> e.NEWS_API_KEY, OpenAIAPIKey |-> e.OPENAI_API_KEY]


\* --------------------------------------------------------------- requests
Methods == {"GET", "POST", "OPTIONS", "DELETE"}

\* A path that only has the headlines (search) path as a prefix.
HeadlinesLongerPath == HeadlinesPath \o <<"x">>
SearchLongerPath == SearchPath \o <<"x">>
\* A path outside the API: a file of ./public/ when the file exists.
StaticPath == <<"/","a","p","p",".","j","s">>
\* A path that is not in canonical form (a doubled slash).
DoubleSlashPath == <<"/">> \o HealthPath

Paths ==
    {HealthPath, ApiHealthPath, HeadlinesPath, SearchPath, TransformPath,
     HeadlinesLongerPath, SearchLongerPath, StaticPath, DoubleSlashPath}

\* A query parameter or JSON field: absent, or present with a value.
Absent == [present |-> FALSE, value |-> EmptyStr]

Given(v) == [present |-> TRUE, value |-> v]

Optional == {Absent} \cup {Given(v) : v \in Strs}

NoQuery == [category |-> Absent, q |-> Absent]

\* r.URL.Query().Get(name): the value, or "" when the parameter is absent.
QueryGet(query, name) ==
    IF query[name].present THEN query[name].value ELSE EmptyStr

\* Request bodies, by what the JSON decoder meets:
\*   empty     no bytes at all
\*   syntax    bytes that do not start a JSON value, e.g.  {"title":
\*   object    {"title": T, "description": D}, either field possibly absent
\*   trailing  such an object followed by bytes that are not JSON
\*   null      the JSON value null
\*   array     a JSON value that is no object, e.g.  []
BodyKinds == {"empty", "syntax", "object", "trailing", "null", "array"}

NoBody == [kind |-> "empty", title |-> Absent, description |-> Absent]

Bodies ==
    {[kind |-> k, title |-> Absent, description |-> Absent] :
        k \in {"empty", "syntax", "null", "array"}}
    \cup [kind : {"object", "trailing"}, title : Optional, description : Optional]

\* json.NewDecoder(r.Body).Decode(&requestData): reads ONE JSON value from
\* the stream and stops; what follows the value is not looked at.  A field
\* that is absent leaves the zero value "".
Decode(body) ==
    CASE body.kind = "empty" -> [err |-> "EOF", Title |-> EmptyStr, Description |-> EmptyStr]
      [] body.kind = "syntax" -> [err |-> "syntax error", Title |-> EmptyStr, Description |-> EmptyStr]
      [] body.kind = "array" -> [err |-> "cannot unmarshal array", Title |-> EmptyStr, Description |-> EmptyStr]
      [] body.kind = "null" -> [err |-> "nil", Title |-> EmptyStr, Description |-> EmptyStr]
      [] OTHER ->
           [err |-> "nil",
            Title |-> IF body.title.present THEN body.title.value ELSE EmptyStr,
            Description |-> IF body.description.present
                            THEN body.description.value ELSE EmptyStr]

\* The requests the model sends: every method on every path with no query
\* and no body, the static path with its file present, and on the paths
\* that read them every category, q and body.
Requests ==
    [method : Methods, path : Paths, query : {NoQuery}, body : {NoBody},
     fileExists : {FALSE}]
    \cup [method : Methods, path : {StaticPath}, query : {NoQuery},
          body : {NoBody}, fileExists : {TRUE}]
    \cup [method : {"GET", "POST"}, path : {HeadlinesPath, HeadlinesLongerPath},
          query : [category : Optional, q : {Absent}], body : {NoBody},
          fileExists : {FALSE}]
    \cup [method : {"GET", "POST"}, path : {SearchPath, SearchLongerPath},
          query : [category : {Absent}, q : Optional], body : {NoBody},
          fileExists : {FALSE}]
    \cup [method : {"GET", "POST"}, path : {TransformPath}, query : {NoQuery},
          body : Bodies, fileExists : {FALSE}]

\* -------------------------------------------------------------- responses
NoResponse == [kind |-> "none", msg |-> <<>>, data |-> <<>>]

\* w.Header().Set(name, value)
SetHeader(headers, name, value) ==
    {h \in headers : h[1] # name} \cup {<<name, value>>}

CORSHeaders ==
    {<<"Access-Control-Allow-Origin", "*">>,
     <<"Access-Control-Allow-Methods", "GET, POST, PUT, DELETE, OPTIONS">>,
     <<"Access-Control-Allow-Headers", "Content-Type, Authorization">>}

\* No upstream has answered the request (yet).
NoReply == [kind |-> "none"]

\* The state of one request: its input (method, path, query, body,
\* fileExists), the handler it reached, where it is (pc), the response
\* written so far, the upstream calls it made, what the upstream
\* answered (reply), the upstream URLs it wrote to the log (logged) and how many
\* times it wrote a response (writes); resp is the status of the upstream
\* response whose body it is reading (0: none).
NewRequest(rq) ==
    [method |-> rq.method, path |-> rq.path, query |-> rq.query,
     body |-> rq.body, fileExists |-> rq.fileExists,
     headers |-> {}, handler |-> "none", pc |-> "start", status |-> 0,
     respBody |-> NoResponse, calls |-> <<>>, cfg |-> NoConfig,
     reply |-> NoReply, logged |-> <<>>, writes |-> 0, resp |-> 0]

Idle == [NewRequest([method |-> "GET", path |-> EmptyStr, query |-> NoQuery,
                     body |-> NoBody, fileExists |-> FALSE])
         EXCEPT !.pc = "idle"]

\* setCORS, and the first three lines of corsMiddleware.
setCORS(st) ==
    [st EXCEPT !.headers =
        SetHeader(SetHeader(SetHeader(@,
            "Access-Control-Allow-Origin", "*"),
            "Access-Control-Allow-Methods", "GET, POST, PUT, DELETE, OPTIONS"),
            "Access-Control-Allow-Headers", "Content-Type, Authorization")]

\* w.WriteHeader(code) followed by return: a response with no body.
WriteHeader(st, code) ==
    [st EXCEPT !.status = code, !.pc = "done", !.writes = @ + 1,
               !.respBody = [kind |-> "empty", msg |-> <<>>, data |-> <<>>]]

\* http.Error(w, msg, code)
httpError(st, msg, code) ==
    [st EXCEPT !.headers = SetHeader(SetHeader(@,
                    "Content-Type", "text/plain; charset=utf-8"),
                    "X-Content-Type-Options", "nosniff"),
               !.status = code, !.pc = "done", !.writes = @ + 1,
               !.respBody = [kind |-> "error", msg |-> msg, data |-> <<>>]]

\* json.NewEncoder(w).Encode(v): the first write sends status 200 when no
\* status was written before.
Encode(st, kind, v) ==
    [st EXCEPT !.status = IF @ = 0 THEN 200 ELSE @,
               !.pc = "done", !.writes = @ + 1,
               !.respBody = [kind |-> kind, msg |-> <<>>, data |-> v]]

ContentTypeJSON(st) ==
    [st EXCEPT !.headers = SetHeader(@, "Content-Type", "application/json")]

\* An error text: the fixed wording, plus the upstream status or the
\* upstream URL when the wording embeds one (%d, %v of a transport error).
Msg(text) == [text |-> text, status |-> 0, url |-> EmptyStr]

\* fmt.Sprintf("<prefix>: %v", err)
Wrap(prefix, err) == [err EXCEPT !.text = prefix \o @]

NoError == Msg("nil")

\* log.Printf("<prefix>: %v", err): the text goes to the log, and with it
\* the upstream URL when the error text embeds one.
logError(st, err) ==
    IF err.url = EmptyStr THEN st
    ELSE [st EXCEPT !.logged = Append(@, err.url)]

\* ------------------------------------------------------------- upstreams
\* Statuses an upstream answers with.
UpstreamStatuses == {200, 401, 404, 429, 500, 503}

\* ---- JSON as the news upstream sends it.  A member of a JSON object is
\* present with a value, present as null, or absent.
JVal(v) == [t |-> "val", v |-> v]
JNull(zero) == [t |-> "null", v |-> zero]
JAbsent(zero) == [t |-> "absent", v |-> zero]

\* An article object: its members, and whether it has a member that the
\* Article struct does not name.
FullArticle ==
    [source |-> [t |-> "val", id |-> JVal("bbc"), name |-> JVal("BBC")],
     author |-> JVal("A. Writer"), title |-> JVal("T1"),
     description |-> JVal("D1"), url |-> JVal("U1"),
     urlToImage |-> JVal("I1"), publishedAt |-> JVal("2024-01-01T00:00:00Z"),
     content |-> JVal("C1"), extra |-> FALSE]

\* An article as the news API often sends it: no source id, no author.
NullAuthorArticle ==
    [FullArticle EXCEPT !.source.id = JNull(""), !.author = JNull(""),
                        !.title = JVal("T2")]

\* An article with a member missing, one null, and an unknown member.
SparseArticle ==
    [FullArticle EXCEPT !.description = JAbsent(""), !.urlToImage = JNull(""),
                        !.title = JVal("T3"), !.extra = TRUE]

ArticleValues == {FullArticle, NullAuthorArticle, SparseArticle}

ArticleLists == UNION {[1..k -> ArticleValues] : k \in 0..MaxArticles}

\* News results the news upstream sends in a body that parses.
NewsPayloads ==
    [status : {JVal("ok")},
     totalResults : {JVal(2), JAbsent(0)},
     articles : {JVal(l) : l \in ArticleLists} \cup {JNull(<<>>), JAbsent(<<>>)},
     extra : BOOLEAN]

\* A body that is no news result.
NoNewsBody ==
    [status |-> JAbsent(""), totalResults |-> JAbsent(0),
     articles |-> JAbsent(<<>>), extra |-> FALSE]

\* A news result with nothing missing.
FullNewsBody ==
    [status |-> JVal("ok"), totalResults |-> JVal(2),
     articles |-> JVal(<<FullArticle, FullArticle>>), extra |-> FALSE]

\* ---- the Go structs NewsResponse, Article, Source
\* var newsResponse NewsResponse: the zero value (a nil Articles slice).
NoNews ==
    [Status |-> "", TotalResults |-> 0,
     Articles |-> [isNil |-> TRUE, items |-> <<>>]]

\* json.Unmarshal into a string or int field: a value is stored, null and
\* an absent member leave the zero value.
unmarshalField(j, zero) == IF j.t = "val" THEN j.v ELSE zero

\* json.Unmarshal into an Article: members the struct does not name are
\* ignored.
unmarshalArticle(a) ==
    [Source |-> IF a.source.t = "val"
                THEN [ID |-> unmarshalField(a.source.id, ""),
                      Name |-> unmarshalField(a.source.name, "")]
                ELSE [ID |-> "", Name |-> ""],
     Author |-> unmarshalField(a.author, ""),
     Title |-> unmarshalField(a.title, ""),
     Description |-> unmarshalField(a.description, ""),
     URL |-> unmarshalField(a.url, ""),
     URLToImage |-> unmarshalField(a.urlToImage, ""),
     PublishedAt |-> unmarshalField(a.publishedAt, ""),
     Content |-> unmarshalField(a.content, "")]

\* json.Unmarshal(body, &newsResponse) of a body that parses.
unmarshalNews(j) ==
    [Status |-> unmarshalField(j.status, ""),
     TotalResults |-> unmarshalField(j.totalResults, 0),
     Articles |->
        IF j.articles.t = "val"
        THEN [isNil |-> FALSE,
              items |-> [i \in 1..Len(j.articles.v) |->
                            unmarshalArticle(j.articles.v[i])]]
        ELSE [isNil |-> TRUE, items |-> <<>>]]

\* The JSON that encoding an Article writes: every member of the struct.
marshalArticle(a) ==
    [source |-> [t |-> "val", id |-> JVal(a.Source.ID), name |-> JVal(a.Source.Name)],
     author |-> JVal(a.Author), title |-> JVal(a.Title),
     description |-> JVal(a.Description), url |-> JVal(a.URL),
     urlToImage |-> JVal(a.URLToImage), publishedAt |-> JVal(a.PublishedAt),
     content |-> JVal(a.Content), extra |-> FALSE]

\* marshalNews as it would be if it wrote the articles in reverse order.
marshalNewsReversed(n) ==
    [status |-> JVal(n.Status),
     totalResults |-> JVal(n.TotalResults),
     articles |->
        IF n.Articles.isNil THEN JNull(<<>>)
        ELSE JVal([i \in 1..Len(n.Articles.items) |->
                      marshalArticle(n.Articles.items[Len(n.Articles.items) + 1 - i])]),
     extra |-> FALSE]

\* The JSON that json.NewEncoder(w).Encode(newsResponse) writes: every
\* member of the struct; a nil slice is written as null.
marshalNews(n) ==
    [status |-> JVal(n.Status),
     totalResults |-> JVal(n.TotalResults),
     articles |->
        IF n.Articles.isNil THEN JNull(<<>>)
        ELSE JVal([i \in 1..Len(n.Articles.items) |->
                      marshalArticle(n.Articles.items[i])]),
     extra |-> FALSE]

\* What a news GET comes back with: a transport error, a response whose
\* body cannot be read, or a response with a status and a body that parses
\* as a news result or does not.
NewsOutcomes ==
    {[kind |-> "neterr", status |-> 0, parses |-> FALSE, news |-> NoNewsBody]}
    \cup [kind : {"readerr"}, status : UpstreamStatuses, parses : {FALSE},
          news : {NoNewsBody}]
    \cup [kind : {"resp"}, status : UpstreamStatuses, parses : {FALSE},
          news : {NoNewsBody}]
    \cup [kind : {"resp"}, status : UpstreamStatuses \ {200}, parses : {TRUE},
          news : {FullNewsBody}]
    \cup [kind : {"resp"}, status : {200}, parses : {TRUE}, news : NewsPayloads]

\* Texts a completion choice can carry.
ChoiceTexts == {<<"X">>, <<"Y">>}

ChoiceLists == UNION {[1..k -> ChoiceTexts] : k \in 0..MaxChoices}

\* What a completion POST comes back with.
OpenAIOutcomes ==
    {[kind |-> "neterr", status |-> 0, parses |-> FALSE, choices |-> <<>>]}
    \cup [kind : {"resp"}, status : UpstreamStatuses, parses : {FALSE},
          choices : {<<>>}]
    \cup [kind : {"resp"}, status : UpstreamStatuses, parses : {TRUE},
          choices : ChoiceLists]

\* One upstream call as it leaves the server.
NewsCall(url) ==
    [api |-> "news", method |-> "GET", url |-> url, auth |-> EmptyStr,
     messages |-> <<>>]

OpenAICall(auth, messages) ==
    [api |-> "openai", method |-> "POST", url |-> OpenAIURL, auth |-> auth,
     messages |-> messages]

\* fetchNews, line 1: the upstream URL.
fetchNewsURL(endpoint, key) == NewsBase \o endpoint \o ApiKeyParam \o key

\* fetchNews of main.go up to http.Get: the masked URL is logged, the call
\* is made and the request waits.
fetchNewsCall(st, endpoint, cfg) ==
    LET url == fetchNewsURL(endpoint, cfg.NewsAPIKey)
        maskedURL == Replace1(url, cfg.NewsAPIKey, Redacted)
    IN  [st EXCEPT !.pc = "await_news",
                   !.logged = Append(@, maskedURL),
                   !.calls = Append(@, NewsCall(url))]

\* fetchNews of the serverless function up to http.Get: no line is logged
\* before the call.
fetchNewsCallServerless(st, endpoint, cfg) ==
    [st EXCEPT !.pc = "await_news",
               !.calls = Append(@, NewsCall(fetchNewsURL(endpoint, cfg.NewsAPIKey)))]

\* fetchNewsResult as it would be if the json.Unmarshal error were dropped:
\* the zero NewsResponse is returned as a result.
fetchNewsResultIgnoreParseError(out, url) ==
    CASE out.kind = "neterr" ->
           [err |-> [text |-> "failed to fetch news: Get %q: transport error",
                     status |-> 0, url |-> url],
            news |-> NoNews]
      [] out.kind = "readerr" ->
           [err |-> Msg("failed to read response body: unexpected EOF"),
            news |-> NoNews]
      [] out.status # 200 ->
           [err |-> [text |-> "NewsAPI returned status %d",
                     status |-> out.status, url |-> EmptyStr],
            news |-> NoNews]
      [] ~out.parses ->
           [err |-> NoError, news |-> NoNews]
      [] OTHER -> [err |-> NoError, news |-> unmarshalNews(out.news)]

\* fetchNews after http.Get returned: (newsResponse, err).
fetchNewsResult(out, url) ==
    CASE out.kind = "neterr" ->
           [err |-> [text |-> "failed to fetch news: Get %q: transport error",
                     status |-> 0, url |-> url],
            news |-> NoNews]
      [] out.kind = "readerr" ->
           [err |-> Msg("failed to read response body: unexpected EOF"),
            news |-> NoNews]
      [] out.status # 200 ->
           [err |-> [text |-> "NewsAPI returned status %d",
                     status |-> out.status, url |-> EmptyStr],
            news |-> NoNews]
      [] ~out.parses ->
           [err |-> Msg("failed to parse JSON response: invalid character"),
            news |-> NoNews]
      [] OTHER -> [err |-> NoError, news |-> unmarshalNews(out.news)]

\* The endpoint getTopHeadlines and handleHeadlines build.
headlinesEndpoint(category) ==
    IF category # EmptyStr
    THEN HeadlinesEndpoint \o CategoryParam \o category
    ELSE HeadlinesEndpoint

\* The endpoint searchNews and handleSearch build.
searchEndpoint(query) == SearchEndpoint \o query

\* The two messages of the completion request.
transformMessages(title, description) ==
    << [role |-> "system", content |-> systemPrompt],
       [role |-> "user",
        content |-> UserPrefix \o title \o UserMiddle \o description] >>

\* The Authorization header of the completion request.
bearer(key) == BearerPrefix \o key

\* ------------------------------------------------- handlers of main.go
\* The URL of the last upstream call a request made.
lastURL(st) == st.calls[Len(st.calls)].url

\* getTopHeadlines up to the upstream call.
getTopHeadlines(st, cfg) ==
    LET s1 == ContentTypeJSON([st EXCEPT !.handler = "getTopHeadlines"])
        category == QueryGet(st.query, "category")
    IN  fetchNewsCall(s1, headlinesEndpoint(category), cfg)

\* getTopHeadlines as it would be if it passed the upstream status on.
getTopHeadlinesReplyPassStatus(st, out) ==
    LET res == fetchNewsResult(out, lastURL(st))
    IN  IF res.err # NoError
        THEN httpError(logError(st, res.err), Wrap("Error fetching news: ", res.err),
                       IF res.err.status # 0 THEN res.err.status ELSE 500)
        ELSE Encode(st, "news", marshalNews(res.news))

\* getTopHeadlines once fetchNews returned.
getTopHeadlinesReply(st, out) ==
    LET res == fetchNewsResult(out, lastURL(st))
    IN  IF res.err # NoError
        THEN httpError(logError(st, res.err), Wrap("Error fetching news: ", res.err), 500)
        ELSE Encode(st, "news", marshalNews(res.news))

\* searchNews as it would be without the check of q.
searchNewsUnchecked(st, cfg) ==
    LET s1 == ContentTypeJSON([st EXCEPT !.handler = "searchNews"])
    IN  fetchNewsCall(s1, searchEndpoint(QueryGet(st.query, "q")), cfg)

\* searchNews up to the upstream call.
searchNews(st, cfg) ==
    LET s1 == ContentTypeJSON([st EXCEPT !.handler = "searchNews"])
        query == QueryGet(st.query, "q")
    IN  IF query = EmptyStr
        THEN httpError(s1, Msg("Query parameter 'q' is required"), 400)
        ELSE fetchNewsCall(s1, searchEndpoint(query), cfg)

\* searchNewsReply as it would be without the return after http.Error: the
\* nil newsResponse is encoded ("null") after the error message.
searchNewsReplyMissingReturn(st, out) ==
    LET res == fetchNewsResult(out, lastURL(st))
    IN  IF res.err # NoError
        THEN Encode(httpError(logError(st, res.err), Wrap("Error searching news: ", res.err), 500),
                    "news", JNull(<<>>))
        ELSE Encode(st, "news", marshalNews(res.news))

\* searchNews once fetchNews returned.
searchNewsReply(st, out) ==
    LET res == fetchNewsResult(out, lastURL(st))
    IN  IF res.err # NoError
        THEN httpError(logError(st, res.err), Wrap("Error searching news: ", res.err), 500)
        ELSE Encode(st, "news", marshalNews(res.news))

\* transformNews up to json.NewDecoder(r.Body).Decode, which waits for the
\* client's body.
transformNews(st, cfg) ==
    LET s1 == ContentTypeJSON([st EXCEPT !.handler = "transformNews"])
    IN  IF st.method # "POST"
        THEN httpError(s1, Msg("Method not allowed"), 405)
        ELSE [s1 EXCEPT !.pc = "read_body"]

\* transformNews from the return of Decode up to client.Do(req).
transformNewsDecoded(st, cfg) ==
    LET requestData == Decode(st.body)
    IN  IF requestData.err # "nil"
        THEN httpError(st, Msg("Invalid JSON"), 400)
        ELSE [st EXCEPT
                !.pc = "await_openai",
                !.calls = Append(@, OpenAICall(bearer(cfg.OpenAIAPIKey),
                    transformMessages(requestData.Title, requestData.Description)))]

\* transformNews as it would be if it took the last choice.
transformNewsReplyLastChoice(st, out) ==
    IF out.kind = "neterr" \/ out.status # 200 \/ ~out.parses
       \/ Len(out.choices) = 0
    THEN httpError(st, Msg("Error from OpenAI API"), 500)
    ELSE Encode(st, "transform",
                [transformedContent |-> out.choices[Len(out.choices)]])

\* transformNews once client.Do(req) returned.
\* transformNewsReply as it would be without the len(Choices) == 0 test:
\* Choices[0] of an empty slice panics, net/http recovers the panic and
\* closes the connection, and nothing is written.
transformNewsReplyUncheckedChoices(st, out) ==
    IF out.kind = "neterr"
    THEN httpError(st, Msg("Error making request to OpenAI"), 500)
    ELSE IF out.status # 200
    THEN httpError(st, Msg("Error from OpenAI API"), 500)
    ELSE IF ~out.parses
    THEN httpError(st, Msg("Error parsing OpenAI response"), 500)
    ELSE IF Len(out.choices) = 0
    THEN [st EXCEPT !.pc = "done"]
    ELSE Encode(st, "transform", [transformedContent |-> out.choices[1]])

transformNewsReply(st, out) ==
    IF out.kind = "neterr"
    THEN httpError(st, Msg("Error making request to OpenAI"), 500)
    ELSE IF out.status # 200
    THEN httpError(st, Msg("Error from OpenAI API"), 500)
    ELSE IF ~out.parses
    THEN httpError(st, Msg("Error parsing OpenAI response"), 500)
    ELSE IF Len(out.choices) = 0
    THEN httpError(st, Msg("No response from OpenAI"), 500)
    ELSE Encode(st, "transform", [transformedContent |-> out.choices[1]])

\* The fixed JSON object of the health handlers.
healthResponse ==
    [status |-> "healthy", service |-> "Ministry of Truth Backend",
     time |-> "time.Now() in RFC3339"]

healthCheck(st) ==
    Encode(ContentTypeJSON([st EXCEPT !.handler = "healthCheck"]),
           "health", healthResponse)

\* The headers net/http's serveContent sets before it writes the file.
FileHeaders(headers) ==
    SetHeader(SetHeader(SetHeader(SetHeader(headers,
        "Last-Modified", "the file's modification time"),
        "Content-Type", "by the file's extension"),
        "Accept-Ranges", "bytes"),
        "Content-Length", "the file's size")

\* http.FileServer(http.Dir("./public/")): the file, or 404.
FileServer(st) ==
    LET s1 == [st EXCEPT !.handler = "FileServer"]
    IN  IF st.fileExists
        THEN [s1 EXCEPT !.headers = FileHeaders(@),
                        !.status = 200, !.pc = "done", !.writes = @ + 1,
                        !.respBody = [kind |-> "static", msg |-> <<>>, data |-> <<>>]]
        ELSE httpError(s1, Msg("404 page not found"), 404)

\* The route table main builds, in registration order.
Routes ==
    << [path |-> HeadlinesPath, prefix |-> FALSE, methods |-> {"GET"},
        handler |-> "getTopHeadlines"],
       [path |-> SearchPath, prefix |-> FALSE, methods |-> {"GET"},
        handler |-> "searchNews"],
       [path |-> TransformPath, prefix |-> FALSE, methods |-> {"POST"},
        handler |-> "transformNews"],
       [path |-> HealthPath, prefix |-> FALSE, methods |-> {"GET"},
        handler |-> "healthCheck"],
       [path |-> <<"/">>, prefix |-> TRUE, methods |-> Methods,
        handler |-> "FileServer"] >>

routeMatches(rt, st) ==
    /\ IF rt.prefix THEN HasPrefix(st.path, rt.path) ELSE st.path = rt.path
    /\ st.method \in rt.methods

\* The router's match: the first registered route whose path and method
\* both match (a route whose method does not match is passed over).
Match(st) ==
    LET hits == {i \in 1..Len(Routes) : routeMatches(Routes[i], st)}
    IN  IF hits = {} THEN "NotFound"
        ELSE Routes[CHOOSE i \in hits : \A j \in hits : i <= j].handler

\* The handler function a route names.
routeHandler(name, st, cfg) ==
    CASE name = "getTopHeadlines" -> getTopHeadlines(st, cfg)
      [] name = "searchNews" -> searchNews(st, cfg)
      [] name = "transformNews" -> transformNews(st, cfg)
      [] name = "healthCheck" -> healthCheck(st)
      [] OTHER -> FileServer(st)

\* corsMiddleware wrapped around the matched route's handler.
corsMiddleware(next, st, cfg) ==
    LET s1 == setCORS(st)
    IN  IF st.method = "OPTIONS"
        THEN WriteHeader(s1, 200)
        ELSE routeHandler(next, s1, cfg)

\* The router's path cleaning, for the paths of the model: a run of
\* slashes becomes one slash.
RECURSIVE cleanPath(_)
cleanPath(path) ==
    IF Len(path) < 2 THEN path
    ELSE IF path[1] = "/" /\ path[2] = "/" THEN cleanPath(Tail(path))
    ELSE <<path[1]>> \o cleanPath(Tail(path))

\* The router main installs (mux.NewRouter with its defaults, r.Use):
\* a path that is not in canonical form is answered with a redirect to the
\* clean path before any route is matched; otherwise the middleware runs
\* around the handler of the matched route.
ServeHTTP(st, cfg) ==
    IF cleanPath(st.path) # st.path
    THEN [st EXCEPT !.headers = SetHeader(@, "Location", "the clean path"),
                    !.status = 301, !.pc = "done", !.writes = @ + 1,
                    !.respBody = [kind |-> "empty", msg |-> <<>>, data |-> <<>>]]
    ELSE IF Match(st) = "NotFound"
    THEN httpError(st, Msg("404 page not found"), 404)
    ELSE corsMiddleware(Match(st), st, cfg)

\* ------------------------------------- handlers of the serverless function
handleHealth(st) ==
    Encode(ContentTypeJSON([st EXCEPT !.handler = "handleHealth"]),
           "health", healthResponse)

\* handleHeadlines up to the upstream call.
handleHeadlines(st, cfg) ==
    LET s1 == ContentTypeJSON([st EXCEPT !.handler = "handleHeadlines"])
        category == QueryGet(st.query, "category")
    IN  fetchNewsCallServerless(s1, headlinesEndpoint(category), cfg)

\* handleHeadlines once fetchNews returned.
handleHeadlinesReply(st, out) ==
    LET res == fetchNewsResult(out, lastURL(st))
    IN  IF res.err # NoError
        THEN httpError(logError(st, res.err), Wrap("Error fetching news: ", res.err), 500)
        ELSE Encode(st, "news", marshalNews(res.news))

\* handleSearch up to the upstream call.
handleSearch(st, cfg) ==
    LET s1 == ContentTypeJSON([st EXCEPT !.handler = "handleSearch"])
        query == QueryGet(st.query, "q")
    IN  IF query = EmptyStr
        THEN httpError(s1, Msg("Query parameter 'q' is required"), 400)
        ELSE fetchNewsCallServerless(s1, searchEndpoint(query), cfg)

\* handleSearch once fetchNews returned.
handleSearchReply(st, out) ==
    LET res == fetchNewsResult(out, lastURL(st))
    IN  IF res.err # NoError
        THEN httpError(logError(st, res.err), Wrap("Error searching news: ", res.err), 500)
        ELSE Encode(st, "news", marshalNews(res.news))

\* transformContent once client.Do(req) returned: (result, err).
transformContent(out) ==
    IF out.kind = "neterr"
    THEN [err |-> [text |-> "Post %q: transport error", status |-> 0,
                   url |-> OpenAIURL],
          result |-> <<>>]
    ELSE IF out.status # 200
    THEN [err |-> [text |-> "OpenAI API returned status %d",
                   status |-> out.status, url |-> EmptyStr],
          result |-> <<>>]
    ELSE IF ~out.parses
    THEN [err |-> Msg("invalid character"), result |-> <<>>]
    ELSE IF Len(out.choices) = 0
    THEN [err |-> Msg("no response from OpenAI"), result |-> <<>>]
    ELSE [err |-> NoError,
          result |-> [transformedContent |-> out.choices[1]]]

\* handleTransform up to json.NewDecoder(r.Body).Decode, which waits for
\* the client's body.
handleTransform(st, cfg) ==
    [ContentTypeJSON([st EXCEPT !.handler = "handleTransform"])
     EXCEPT !.pc = "read_body"]

\* handleTransform from the return of Decode, and transformContent up to
\* client.Do(req), with the Config Handler read before the wait.
handleTransformDecoded(st, cfg) ==
    LET requestData == Decode(st.body)
    IN  IF requestData.err # "nil"
        THEN httpError(st, Msg("Invalid JSON"), 400)
        ELSE [st EXCEPT
                !.pc = "await_openai",
                !.calls = Append(@, OpenAICall(bearer(cfg.OpenAIAPIKey),
                    transformMessages(requestData.Title, requestData.Description)))]

\* handleTransform once transformContent returned.
handleTransformReply(st, out) ==
    LET res == transformContent(out)
    IN  IF res.err # NoError
        THEN httpError(logError(st, res.err), Msg("Error transforming content"), 500)
        ELSE Encode(st, "transform", res.result)

\* Handler: CORS, the preflight short cut, the configuration, the routes.
Handler(st, e) ==
    LET s1 == setCORS(st)
        cfg == loadConfig(e)
        s2 == [s1 EXCEPT !.cfg = cfg]
    IN  IF st.method = "OPTIONS"
        THEN WriteHeader(s1, 200)
        ELSE IF cfg.err # "nil"
        THEN httpError(s2, Msg("Server configuration error"), 500)
        ELSE IF st.path = ApiHealthPath THEN handleHealth(s2)
        ELSE IF HasPrefix(st.path, HeadlinesPath) THEN handleHeadlines(s2, cfg)
        ELSE IF HasPrefix(st.path, SearchPath) THEN handleSearch(s2, cfg)
        ELSE IF st.path = TransformPath /\ st.method = "POST"
        THEN handleTransform(s2, cfg)
        ELSE httpError(s2, Msg("Not found"), 404)

\* ------------------------------------------------------------------ state
VARIABLES
    deployment,   \* "mux": the server of main.go; "serverless": Handler
    env,          \* the process environment
    startEnv,     \* the process environment as it was at process start
    proc,         \* "starting", "serving" or "exited"
    config,       \* the global config of main.go
    reqs          \* the state of the request in each serving slot

vars == <<deployment, env, startEnv, proc, config, reqs>>

\* Requests in flight at once.
Slots == {1}

Init ==
    /\ deployment \in {"mux", "serverless"}
    /\ env \in Envs
    /\ startEnv = env
    \* The serverless function has no start-up of its own: the platform
    \* invokes Handler per request.
    /\ proc = IF deployment = "mux" THEN "starting" ELSE "serving"
    /\ config = NoConfig
    /\ reqs = [s \in Slots |-> Idle]

\* main: load the configuration; exit on error (log.Fatalf), else serve.
main ==
    /\ deployment = "mux"
    /\ proc = "starting"
    /\ LET cfg == loadConfig(env)
       IN  IF cfg.err # "nil"
           THEN /\ proc' = "exited"
                /\ config' = config
           ELSE /\ proc' = "serving"
                /\ config' = cfg
    /\ UNCHANGED <<deployment, env, startEnv, reqs>>

\* The server's entry point for one request: the router of main.go, or
\* Handler.
Serve(rq) ==
    IF deployment = "mux"
    THEN ServeHTTP(NewRequest(rq), config)
    ELSE Handler(NewRequest(rq), env)

\* Accept as it would be if the query were kept in a package-level
\* variable: a request in flight has overwritten it.
AcceptSharedRequest(s, rq) ==
    /\ proc = "serving"
    /\ reqs[s].pc = "idle"
    /\ LET others == {t \in DOMAIN reqs \ {s} : reqs[t].pc # "idle"}
           seen == IF others = {} THEN rq
                   ELSE [rq EXCEPT !.query = reqs[CHOOSE t \in others : TRUE].query]
       IN  reqs' = [reqs EXCEPT ![s] = [Serve(seen) EXCEPT !.query = rq.query]]
    /\ UNCHANGED <<deployment, env, startEnv, proc, config>>

\* A request arrives and is handled up to its response or its upstream call.
Accept(s, rq) ==
    /\ proc = "serving"
    /\ reqs[s].pc = "idle"
    /\ reqs' = [reqs EXCEPT ![s] = Serve(rq)]
    /\ UNCHANGED <<deployment, env, startEnv, proc, config>>

\* The client's body has arrived: Decode returns and the handler goes on
\* to its upstream call or its 400.
decoded(st) ==
    IF st.handler = "transformNews"
    THEN transformNewsDecoded(st, config)
    ELSE handleTransformDecoded(st, st.cfg)

Decoded(s) ==
    /\ reqs[s].pc = "read_body"
    /\ reqs' = [reqs EXCEPT ![s] = decoded(@)]
    /\ UNCHANGED <<deployment, env, startEnv, proc, config>>

\* The rest of the handler once the upstream's answer is complete (or the
\* call or the read of the body has failed).
newsReplied(st, out) ==
    [(CASE st.handler = "getTopHeadlines" -> getTopHeadlinesReply(st, out)
        [] st.handler = "searchNews" -> searchNewsReply(st, out)
        [] st.handler = "handleHeadlines" -> handleHeadlinesReply(st, out)
        [] OTHER -> handleSearchReply(st, out))
     EXCEPT !.reply = out]

openAIReplied(st, out) ==
    [(IF st.handler = "transformNews"
      THEN transformNewsReply(st, out)
      ELSE handleTransformReply(st, out))
     EXCEPT !.reply = out]

\* http.Get returns: the transport has failed and the handler finishes, or
\* the status line and the headers of the answer are there and
\* io.ReadAll(resp.Body) starts to wait for the body.
NewsReply(s, out) ==
    /\ reqs[s].pc = "await_news"
    /\ out.kind \in {"neterr", "resp"}
    /\ reqs' = [reqs EXCEPT ![s] =
                  IF out.kind = "neterr"
                  THEN newsReplied(@, out)
                  ELSE [@ EXCEPT !.pc = "read_news", !.resp = out.status]]
    /\ UNCHANGED <<deployment, env, startEnv, proc, config>>

\* io.ReadAll(resp.Body) returns, with the body or with an error; the
\* handler finishes.
NewsBody(s, out) ==
    /\ reqs[s].pc = "read_news"
    /\ out.kind \in {"resp", "readerr"}
    /\ out.status = reqs[s].resp
    /\ reqs' = [reqs EXCEPT ![s] = newsReplied(@, out)]
    /\ UNCHANGED <<deployment, env, startEnv, proc, config>>

\* Whether the handler reads the body of a completion answer with this
\* status: transformNews always does (io.ReadAll for an error status,
\* Decode for 200), transformContent returns at once on an error status.
readsOpenAIBody(st, status) ==
    st.handler = "transformNews" \/ status = 200

\* client.Do returns: the transport has failed, or the status line and the
\* headers of the answer are there.
OpenAIReply(s, out) ==
    /\ reqs[s].pc = "await_openai"
    /\ reqs' = [reqs EXCEPT ![s] =
                  IF out.kind = "resp" /\ readsOpenAIBody(@, out.status)
                  THEN [@ EXCEPT !.pc = "read_openai", !.resp = out.status]
                  ELSE openAIReplied(@, out)]
    /\ UNCHANGED <<deployment, env, startEnv, proc, config>>

\* The read of the completion answer's body returns; the handler finishes.
OpenAIBody(s, out) ==
    /\ reqs[s].pc = "read_openai"
    /\ out.kind = "resp"
    /\ out.status = reqs[s].resp
    /\ reqs' = [reqs EXCEPT ![s] = openAIReplied(@, out)]
    /\ UNCHANGED <<deployment, env, startEnv, proc, config>>

\* The response has been sent; the slot serves the next request.
Finish(s) ==
    /\ reqs[s].pc = "done"
    /\ reqs' = [reqs EXCEPT ![s] = Idle]
    /\ UNCHANGED <<deployment, env, startEnv, proc, config>>

Next ==
    \/ main
    \/ \E s \in Slots :
          /\ reqs[s].pc = "idle"
          /\ \E rq \in Requests : Accept(s, rq)
    \/ \E s \in Slots :
          /\ reqs[s].pc = "await_news"
          /\ \E out \in NewsOutcomes : NewsReply(s, out)
    \/ \E s \in Slots :
          /\ reqs[s].pc = "await_openai"
          /\ \E out \in OpenAIOutcomes : OpenAIReply(s, out)
    \/ \E s \in Slots : Decoded(s)
    \/ \E s \in Slots :
          /\ reqs[s].pc = "read_news"
          /\ \E out \in NewsOutcomes : NewsBody(s, out)
    \/ \E s \in Slots :
          /\ reqs[s].pc = "read_openai"
          /\ \E out \in OpenAIOutcomes : OpenAIBody(s, out)
    \/ \E s \in Slots : Finish(s)

Spec == Init /\ [][Next]_vars

\* ----------------------------------------------------------- properties
SearchHandlers == {"searchNews", "handleSearch"}
HeadlinesHandlers == {"getTopHeadlines", "handleHeadlines"}
TransformHandlers == {"transformNews", "handleTransform"}

\* A request the server has accepted.
Accepted(r) == r.pc # "idle"

\* The handler is past the read of the client's body (or reads none).
BodyRead(r) == r.pc # "read_body"

\* An upstream answered the request with an HTTP status.
Answered(r) == r.reply.kind \in {"resp", "readerr"}

\* C1: a request that reaches a search handler with an absent or empty q
\* is answered 400 and makes no upstream call; and no request to the
\* search path with such a q, whatever handled it, makes an upstream call.
C1_EmptyQueryRejected ==
    \A s \in Slots :
        LET r == reqs[s]
        IN  /\ (r.handler \in SearchHandlers /\ QueryGet(r.query, "q") = EmptyStr)
               => (r.pc = "done" /\ r.status = 400 /\ r.calls = <<>>)
            /\ (Accepted(r) /\ r.path = SearchPath /\ QueryGet(r.query, "q") = EmptyStr)
               => (r.pc = "done" /\ r.calls = <<>>)

\* C1 witness: a search handler rejected a q that is present and empty.
C1_Witness ==
    \E s \in Slots :
        /\ reqs[s].handler \in SearchHandlers
        /\ reqs[s].query.q = Given(EmptyStr)
        /\ reqs[s].status = 400

\* C2 (amended): whatever status other than 200 an upstream answers with,
\* the client-facing status is 500.
C2_UpstreamFailureIs500 ==
    \A s \in Slots :
        LET r == reqs[s]
        IN  (r.pc = "done" /\ Answered(r) /\ r.reply.status # 200)
            => r.status = 500

\* C2 witness: an upstream answered 401 and the client was answered.
C2_Witness ==
    \E s \in Slots :
        /\ reqs[s].pc = "done"
        /\ Answered(reqs[s])
        /\ reqs[s].reply.status = 401
        /\ reqs[s].status = 500

\* C2 as claimed: the client-facing status is a 5xx and never equals the
\* upstream status.
C2_StatusNeverEqualsUpstream ==
    \A s \in Slots :
        LET r == reqs[s]
        IN  (r.pc = "done" /\ Answered(r) /\ r.reply.status # 200)
            => (r.status \in 500..599 /\ r.status # r.reply.status)

\* C3 as claimed: an OPTIONS request to any path is answered 200 with an
\* empty body and the CORS headers; no handler runs, no upstream is called.
C3_OptionsAlways200 ==
    \A s \in Slots :
        LET r == reqs[s]
        IN  (Accepted(r) /\ r.method = "OPTIONS")
            => /\ r.pc = "done"
               /\ r.status = 200
               /\ r.respBody.kind = "empty"
               /\ CORSHeaders \subseteq r.headers
               /\ r.handler = "none"
               /\ r.calls = <<>>

\* C4 as claimed: a request is handled only when both credentials are
\* non-empty.
C4_NoRequestWithoutCredentials ==
    \A s \in Slots :
        Accepted(reqs[s])
            => (env.NEWS_API_KEY # EmptyStr /\ env.OPENAI_API_KEY # EmptyStr)

\* The health path of the deployment.
healthPath == IF deployment = "mux" THEN HealthPath ELSE ApiHealthPath

\* C5 as claimed: a GET of the health path is answered 200 with status
\* "healthy" and makes no upstream call, whatever else holds.
C5_HealthAlwaysHealthy ==
    \A s \in Slots :
        LET r == reqs[s]
        IN  (Accepted(r) /\ r.method = "GET" /\ r.path = healthPath)
            => /\ r.status = 200
               /\ r.respBody.kind = "health"
               /\ r.respBody.data.status = "healthy"
               /\ r.calls = <<>>

\* C6 as claimed (its particular cases, with both credentials set): a
\* method other than GET on the headlines or search path, a method other
\* than POST or OPTIONS on the transform path, and a path that only has
\* the headlines or search path as a prefix, are answered 404 and reach no
\* upstream.
C6_UnroutedIs404 ==
    \A s \in Slots :
        LET r == reqs[s]
        IN  ( /\ Accepted(r)
              /\ loadConfig(env).err = "nil"
              /\ r.method # "OPTIONS"
              /\ \/ r.path \in {HeadlinesPath, SearchPath} /\ r.method # "GET"
                 \/ r.path = TransformPath /\ r.method # "POST"
                 \/ r.path \in {HeadlinesLongerPath, SearchLongerPath} )
            => (r.pc = "done" /\ r.status = 404 /\ r.calls = <<>>)

\* C7: a transform request with body {title: T, description: D}, once the
\* body has been read, makes one
\* completion call of two messages, the system prompt and a user message
\* that contains T and D; a 200 answer with at least one choice gives the
\* client 200 and {transformedContent: X}, X the text of the first choice,
\* and no other field.
C7_TransformRoundTrip ==
    \A s \in Slots :
        LET r == reqs[s]
        IN  ( /\ r.handler \in TransformHandlers
              /\ BodyRead(r)
              /\ r.body.kind = "object"
              /\ r.body.title.present
              /\ r.body.description.present )
            => /\ Len(r.calls) = 1
               /\ r.calls[1].api = "openai"
               /\ Len(r.calls[1].messages) = 2
               /\ r.calls[1].messages[1] = [role |-> "system", content |-> systemPrompt]
               /\ r.calls[1].messages[2].role = "user"
               /\ Contains(r.calls[1].messages[2].content, r.body.title.value)
               /\ Contains(r.calls[1].messages[2].content, r.body.description.value)
               /\ ( /\ r.pc = "done"
                    /\ r.reply.kind = "resp"
                    /\ r.reply.status = 200
                    /\ r.reply.parses
                    /\ Len(r.reply.choices) >= 1 )
                  => /\ r.status = 200
                     /\ r.respBody.kind = "transform"
                     /\ DOMAIN r.respBody.data = {"transformedContent"}
                     /\ r.respBody.data.transformedContent = r.reply.choices[1]

\* C7 witness: title and description differ, the upstream sent two
\* different choices, and the client got the first.
C7_Witness ==
    \E s \in Slots :
        LET r == reqs[s]
        IN  /\ r.handler \in TransformHandlers
            /\ r.body.kind = "object"
            /\ r.body.title = Given(<<"a">>)
            /\ r.body.description = Given(<<"&">>)
            /\ r.pc = "done"
            /\ r.reply.kind = "resp"
            /\ r.reply.status = 200
            /\ r.reply.parses
            /\ r.reply.choices = << <<"X">>, <<"Y">> >>
            /\ r.respBody.kind = "transform"
            /\ r.respBody.data.transformedContent = <<"X">>

\* C8 as claimed: a transform request whose body is empty or is not
\* well-formed JSON is answered 400, once the handler has read it, and
\* makes no upstream call.
C8_MalformedBodyRejected ==
    \A s \in Slots :
        LET r == reqs[s]
        IN  ( /\ r.handler \in TransformHandlers
              /\ BodyRead(r)
              /\ r.body.kind \in {"empty", "syntax", "trailing"} )
            => (r.pc = "done" /\ r.status = 400 /\ r.calls = <<>>)

\* ---- what the news upstream receives: the parameters of a URL's query
\* The first position of character c in s, or 0.
IndexOf(s, c) ==
    IF \E i \in 1..Len(s) : s[i] = c
    THEN CHOOSE i \in 1..Len(s) : s[i] = c /\ \A j \in 1..(i - 1) : s[j] # c
    ELSE 0

\* The pieces of s between the separators c.
RECURSIVE SplitOn(_, _)
SplitOn(s, c) ==
    IF IndexOf(s, c) = 0 THEN <<s>>
    ELSE <<SubSeq(s, 1, IndexOf(s, c) - 1)>>
         \o SplitOn(SubSeq(s, IndexOf(s, c) + 1, Len(s)), c)

\* The part of a URL before, and after, its first "?".
URLPath(url) == SubSeq(url, 1, IndexOf(url, "?") - 1)
URLRawQuery(url) == SubSeq(url, IndexOf(url, "?") + 1, Len(url))

\* name=value, split at the first "=".
ParsePair(piece) ==
    IF IndexOf(piece, "=") = 0 THEN <<piece, EmptyStr>>
    ELSE <<SubSeq(piece, 1, IndexOf(piece, "=") - 1),
           SubSeq(piece, IndexOf(piece, "=") + 1, Len(piece))>>

\* The <<name, value>> pairs of a raw query, in order; empty pieces are
\* skipped.
ParseQuery(raw) ==
    LET pieces == SelectSeq(SplitOn(raw, "&"), LAMBDA x : x # EmptyStr)
    IN  [k \in 1..Len(pieces) |-> ParsePair(pieces[k])]

TopHeadlinesURL == NewsBase \o <<"/","t","o","p","-","h","e","a","d","l","i","n","e","s">>
CountryUS == << <<"c","o","u","n","t","r","y">>, <<"u","s">> >>
CategoryName == <<"c","a","t","e","g","o","r","y">>
ApiKeyName == <<"a","p","i","K","e","y">>

\* C9 as claimed: the upstream URL of a headlines request is the
\* top-headlines endpoint with exactly the parameters country=us, then
\* category=<the client's category, verbatim> when one is given, then the
\* API key.
C9_HeadlinesURL ==
    \A s \in Slots :
        LET r == reqs[s]
            category == QueryGet(r.query, "category")
        IN  (r.handler \in HeadlinesHandlers /\ Len(r.calls) >= 1)
            => /\ URLPath(r.calls[1].url) = TopHeadlinesURL
               /\ ParseQuery(URLRawQuery(r.calls[1].url)) =
                    << CountryUS >>
                    \o (IF category = EmptyStr THEN <<>>
                        ELSE << <<CategoryName, category>> >>)
                    \o << <<ApiKeyName, env.NEWS_API_KEY>> >>

\* C10 as claimed: every response carries the three CORS headers.
C10_EveryResponseHasCORS ==
    \A s \in Slots :
        reqs[s].pc = "done" => CORSHeaders \subseteq reqs[s].headers

\* C11 as claimed: the line fetchNews logs for the outgoing URL (the first
\* URL a news handler of main.go logs) is the upstream URL with [REDACTED]
\* in place of the credential, and with it only; the key that was sent
\* does not stand after apiKey= in that line.
C11_LoggedURLRedacted ==
    \A s \in Slots :
        LET r == reqs[s]
        IN  (r.handler \in {"getTopHeadlines", "searchNews"} /\ r.calls # <<>>)
            => /\ r.logged # <<>>
               /\ r.logged[1] =
                    SubSeq(r.calls[1].url, 1,
                           Len(r.calls[1].url) - Len(config.NewsAPIKey))
                    \o Redacted

NewsHandlers == HeadlinesHandlers \cup SearchHandlers

\* The news upstream answered 200 with a body that parses, and the handler
\* has finished.
NewsSuccess(r) ==
    /\ r.handler \in NewsHandlers
    /\ r.pc = "done"
    /\ r.reply.kind = "resp"
    /\ r.reply.status = 200
    /\ r.reply.parses

\* A member as the client gets it: present, with the upstream's value when
\* the upstream sent one and the zero value otherwise.
Kept(up, out, zero) ==
    /\ out.t = "val"
    /\ out.v = IF up.t = "val" THEN up.v ELSE zero

ArticleKept(up, out) ==
    /\ out.source.t = "val"
    /\ Kept(IF up.source.t = "val" THEN up.source.id ELSE JAbsent(""), out.source.id, "")
    /\ Kept(IF up.source.t = "val" THEN up.source.name ELSE JAbsent(""), out.source.name, "")
    /\ Kept(up.author, out.author, "")
    /\ Kept(up.title, out.title, "")
    /\ Kept(up.description, out.description, "")
    /\ Kept(up.url, out.url, "")
    /\ Kept(up.urlToImage, out.urlToImage, "")
    /\ Kept(up.publishedAt, out.publishedAt, "")
    /\ Kept(up.content, out.content, "")
    /\ ~out.extra

\* Every member of the news-result shape is present and not null, and
\* there is no other member.
CompleteArticle(a) ==
    /\ ~a.extra
    /\ a.source.t = "val" /\ a.source.id.t = "val" /\ a.source.name.t = "val"
    /\ \A m \in {a.author, a.title, a.description, a.url, a.urlToImage,
                 a.publishedAt, a.content} : m.t = "val"

CompleteNews(j) ==
    /\ ~j.extra
    /\ j.status.t = "val" /\ j.totalResults.t = "val" /\ j.articles.t = "val"
    /\ \A i \in 1..Len(j.articles.v) : CompleteArticle(j.articles.v[i])

\* C12 (amended): on upstream success the client gets 200 and the upstream
\* result re-encoded from the typed shape: the same status and count and
\* the same articles in the same order, every member that the upstream
\* sent with a value unchanged; a member that is null or absent upstream
\* comes back as "" or 0 (articles: as null) and members outside the shape
\* are dropped.  The body equals the upstream payload when the payload is
\* complete.
C12_PassThroughShape ==
    \A s \in Slots :
        LET r == reqs[s]
            up == r.reply.news
            out == r.respBody.data
        IN  NewsSuccess(r)
            => /\ r.status = 200
               /\ r.respBody.kind = "news"
               /\ Kept(up.status, out.status, "")
               /\ Kept(up.totalResults, out.totalResults, 0)
               /\ ~out.extra
               /\ IF up.articles.t = "val"
                  THEN /\ out.articles.t = "val"
                       /\ Len(out.articles.v) = Len(up.articles.v)
                       /\ \A i \in 1..Len(up.articles.v) :
                              ArticleKept(up.articles.v[i], out.articles.v[i])
                  ELSE out.articles.t = "null"
               /\ CompleteNews(up) => out = up

\* C12 witness: two different articles, the first without author, came
\* back in the upstream's order.
C12_Witness ==
    \E s \in Slots :
        /\ NewsSuccess(reqs[s])
        /\ reqs[s].reply.news.articles = JVal(<<NullAuthorArticle, FullArticle>>)
        /\ reqs[s].respBody.kind = "news"
        /\ reqs[s].respBody.data.articles.v[1].title = JVal("T2")
        /\ reqs[s].respBody.data.articles.v[2] = FullArticle

\* C12 as claimed: on upstream success the client's body equals the
\* upstream payload.
C12_PassThroughIdentity ==
    \A s \in Slots :
        NewsSuccess(reqs[s])
            => /\ reqs[s].status = 200
               /\ reqs[s].respBody.kind = "news"
               /\ reqs[s].respBody.data = reqs[s].reply.news

\* The four failure classes of the completion upstream.
OpenAIFailed(out) ==
    \/ out.kind = "neterr"
    \/ out.kind = "resp" /\ out.status # 200
    \/ out.kind = "resp" /\ out.status = 200 /\ ~out.parses
    \/ out.kind = "resp" /\ out.status = 200 /\ out.parses /\ Len(out.choices) = 0

\* C13: a transform request whose upstream call failed in one of the four
\* classes (transport, non-200, unparseable, zero choices) is answered
\* 500 with an error message and no transformedContent; a transform body
\* is written only when the upstream sent at least one choice.
C13_TransformFailureIs500 ==
    \A s \in Slots :
        LET r == reqs[s]
        IN  /\ (r.handler \in TransformHandlers /\ r.pc = "done"
                /\ r.reply # NoReply /\ OpenAIFailed(r.reply))
               => /\ r.status = 500
                  /\ r.respBody.kind = "error"
            /\ r.respBody.kind = "transform"
               => /\ r.reply # NoReply
                  /\ ~OpenAIFailed(r.reply)
                  /\ Len(r.reply.choices) > 0

\* C13 witness: the upstream answered 200 with a parseable body and zero
\* choices, and the client got 500.
C13_Witness ==
    \E s \in Slots :
        /\ reqs[s].handler \in TransformHandlers
        /\ reqs[s].pc = "done"
        /\ reqs[s].reply # NoReply
        /\ reqs[s].reply.kind = "resp"
        /\ reqs[s].reply.status = 200
        /\ reqs[s].reply.parses
        /\ reqs[s].reply.choices = <<>>
        /\ reqs[s].status = 500
        /\ reqs[s].respBody.kind = "error"

\* The failure classes of the news upstream.
NewsFailed(out) ==
    \/ out.kind = "neterr"
    \/ out.kind = "readerr"
    \/ out.kind = "resp" /\ out.status # 200
    \/ out.kind = "resp" /\ ~out.parses

\* C14: a headlines or search request whose upstream call failed (network
\* error, read error, non-200, unparseable body) is answered 500 with an
\* error message and no payload; a news payload is written only when the
\* upstream answered 200 and the whole body was read and parsed.
C14_NewsFailureIs500 ==
    \A s \in Slots :
        LET r == reqs[s]
        IN  r.handler \in NewsHandlers
            => /\ (r.pc = "done" /\ r.reply # NoReply /\ NewsFailed(r.reply))
                  => /\ r.status = 500
                     /\ r.respBody.kind = "error"
                     /\ r.respBody.data = <<>>
               /\ r.respBody.kind = "news"
                  => /\ r.reply # NoReply
                     /\ r.reply.kind = "resp"
                     /\ r.reply.status = 200
                     /\ r.reply.parses
                     /\ r.status = 200

\* C14 witness: the upstream answered 200 with a body that does not parse,
\* and the client got 500 with an error message.
C14_Witness ==
    \E s \in Slots :
        /\ reqs[s].handler \in NewsHandlers
        /\ reqs[s].pc = "done"
        /\ reqs[s].reply # NoReply
        /\ reqs[s].reply.kind = "resp"
        /\ reqs[s].reply.status = 200
        /\ ~reqs[s].reply.parses
        /\ reqs[s].status = 500
        /\ reqs[s].respBody.kind = "error"
        /\ reqs[s].respBody.data = <<>>

\* The three routes that reach an upstream, as the route table states them.
Routed(r) ==
    \/ r.path = HeadlinesPath /\ r.method = "GET"
    \/ r.path = SearchPath /\ r.method = "GET"
    \/ r.path = TransformPath /\ r.method = "POST"

\* A headlines, search or transform request that passes input validation.
PassesValidation(r) ==
    \/ r.path = HeadlinesPath /\ r.method = "GET"
    \/ r.path = SearchPath /\ r.method = "GET" /\ QueryGet(r.query, "q") # EmptyStr
    \/ r.path = TransformPath /\ r.method = "POST" /\ Decode(r.body).err = "nil"

\* A health, OPTIONS, rejected or unmatched request.
NoUpstreamClass(r) ==
    \/ r.method = "OPTIONS"
    \/ r.path = healthPath /\ r.method = "GET"
    \/ r.status = 400
    \/ ~Routed(r)

\* C15 as claimed: every accepted request makes at most one upstream call;
\* a headlines, search or transform request that passes input validation
\* makes exactly one (a transform request once its body has been read); a
\* health, OPTIONS, rejected or unmatched request makes none.
C15_ExactlyOneUpstreamCall ==
    \A s \in Slots :
        LET r == reqs[s]
        IN  Accepted(r)
            => /\ Len(r.calls) <= 1
               /\ (PassesValidation(r) /\ BodyRead(r)) => Len(r.calls) = 1
               /\ NoUpstreamClass(r) => r.calls = <<>>

\* The values of the parameters called name in a parsed query, in order.
ParamValues(pairs, name) ==
    LET hits == SelectSeq(pairs, LAMBDA pr : pr[1] = name)
    IN  [k \in 1..Len(hits) |-> hits[k][2]]

\* C16 as claimed: every news URL has exactly one apiKey parameter, whose
\* value is the configured news key, and carries no Authorization; every
\* completion request goes to the completion URL with
\* Authorization: Bearer <completion key>; and no response to the client
\* contains the news key as it is sent upstream (apiKey=<key>).
C16_CredentialsStayServerSide ==
    \A s \in Slots :
        LET r == reqs[s]
        IN  Accepted(r)
            => /\ \A i \in 1..Len(r.calls) :
                    IF r.calls[i].api = "news"
                    THEN /\ ParamValues(ParseQuery(URLRawQuery(r.calls[i].url)),
                                        ApiKeyName)
                              = << env.NEWS_API_KEY >>
                         /\ r.calls[i].auth = EmptyStr
                    ELSE /\ r.calls[i].url = OpenAIURL
                         /\ r.calls[i].auth = bearer(env.OPENAI_API_KEY)
               /\ (r.respBody.kind = "error" /\ env.NEWS_API_KEY # EmptyStr)
                  => ~Contains(r.respBody.msg.url, ApiKeyParam \o env.NEWS_API_KEY)

\* ------------------------------------- a changing environment (for C17)
\* The environment changes under the running process: os.Getenv returns
\* the new values from then on.
ChangeEnv(e) ==
    /\ proc = "serving"
    /\ e # env
    /\ env' = e
    /\ UNCHANGED <<deployment, startEnv, proc, config, reqs>>

\* A title-and-description body.
PlainBody == [kind |-> "object", title |-> Given(<<"a">>), description |-> Absent]

\* One request for each handler that reaches an upstream, and the health
\* request.
EnvRequests ==
    {rq \in Requests :
        /\ rq.method \in {"GET", "POST"}
        /\ rq.path \in {HeadlinesPath, TransformPath, HealthPath, ApiHealthPath}
        /\ rq.query = NoQuery
        /\ rq.body \in {NoBody, PlainBody}}

\* One outcome of each kind.
EnvNewsOutcomes ==
    {out \in NewsOutcomes :
        /\ out.status \in {0, 200, 500}
        /\ out.news \in {NoNewsBody, FullNewsBody}}

EnvOpenAIOutcomes ==
    {out \in OpenAIOutcomes :
        /\ out.status \in {0, 200, 500}
        /\ out.choices \in {<<>>, << <<"X">> >>}}

NextEnv ==
    \/ main
    \/ \E e \in Envs : ChangeEnv(e)
    \/ \E s \in Slots :
          /\ reqs[s].pc = "idle"
          /\ \E rq \in EnvRequests : Accept(s, rq)
    \/ \E s \in Slots :
          /\ reqs[s].pc = "await_news"
          /\ \E out \in EnvNewsOutcomes : NewsReply(s, out)
    \/ \E s \in Slots :
          /\ reqs[s].pc = "await_openai"
          /\ \E out \in EnvOpenAIOutcomes : OpenAIReply(s, out)
    \/ \E s \in Slots : Decoded(s)
    \/ \E s \in Slots :
          /\ reqs[s].pc = "read_news"
          /\ \E out \in EnvNewsOutcomes : NewsBody(s, out)
    \/ \E s \in Slots :
          /\ reqs[s].pc = "read_openai"
          /\ \E out \in EnvOpenAIOutcomes : OpenAIBody(s, out)
    \/ \E s \in Slots : Finish(s)

SpecEnv == Init /\ [][NextEnv]_vars

\* C17 as claimed: the configuration holds the values read at startup, and
\* the credentials of every upstream call are the ones the environment
\* had at startup, also after the environment has changed.
C17_ConfigReadOnce ==
    /\ (deployment = "mux" /\ proc = "serving") => config = loadConfig(startEnv)
    /\ \A s \in Slots :
          LET r == reqs[s]
          IN  Accepted(r)
              => \A i \in 1..Len(r.calls) :
                    IF r.calls[i].api = "news"
                    THEN ParamValues(ParseQuery(URLRawQuery(r.calls[i].url)),
                                     ApiKeyName)
                           = << startEnv.NEWS_API_KEY >>
                    ELSE r.calls[i].auth = bearer(startEnv.OPENAI_API_KEY)

\* ------------------------------------ concurrent requests (for C18, C19)
\* net/http runs each request in a goroutine of its own: two in flight.
ConcSlots == {1, 2}

InitConc ==
    /\ deployment \in {"mux", "serverless"}
    /\ env \in Envs
    /\ startEnv = env
    /\ proc = IF deployment = "mux" THEN "starting" ELSE "serving"
    /\ config = NoConfig
    /\ reqs = [s \in ConcSlots |-> Idle]

\* A second title-and-description body.
OtherBody == [kind |-> "object", title |-> Given(<<"=">>), description |-> Given(<<"a">>)]

\* Search and transform requests whose q, title and description differ.
ConcRequests ==
    {rq \in Requests :
        /\ rq.method \in {"GET", "POST"}
        /\ rq.path \in {SearchPath, TransformPath}
        /\ rq.query.q \in {Absent, Given(<<"a">>), Given(<<"=">>)}
        /\ rq.body \in {NoBody, PlainBody, OtherBody}}

ConcOpenAIOutcomes ==
    {out \in OpenAIOutcomes :
        /\ out.status \in {0, 200, 500}
        /\ out.choices \in {<<>>, << <<"X">> >>, << <<"Y">> >>}}

NextConc ==
    \/ main
    \/ \E s \in ConcSlots :
          /\ reqs[s].pc = "idle"
          /\ \E rq \in ConcRequests : Accept(s, rq)
    \/ \E s \in ConcSlots :
          /\ reqs[s].pc = "await_news"
          /\ \E out \in EnvNewsOutcomes : NewsReply(s, out)
    \/ \E s \in ConcSlots :
          /\ reqs[s].pc = "await_openai"
          /\ \E out \in ConcOpenAIOutcomes : OpenAIReply(s, out)
    \/ \E s \in ConcSlots : Decoded(s)
    \/ \E s \in ConcSlots :
          /\ reqs[s].pc = "read_news"
          /\ \E out \in EnvNewsOutcomes : NewsBody(s, out)
    \/ \E s \in ConcSlots :
          /\ reqs[s].pc = "read_openai"
          /\ \E out \in ConcOpenAIOutcomes : OpenAIBody(s, out)
    \/ \E s \in ConcSlots : Finish(s)

SpecConc == InitConc /\ [][NextConc]_vars

\* The request a slot is handling, as it arrived.
RequestOf(r) ==
    [method |-> r.method, path |-> r.path, query |-> r.query, body |-> r.body,
     fileExists |-> r.fileExists]

\* The state of a request handled alone: the handler run on the request as
\* it arrived, then on its body once read, then on the status of its
\* upstream's answer once received and on the whole answer once read.
Alone(r) ==
    LET arrived == Serve(RequestOf(r))
        st == IF arrived.pc = "read_body" /\ BodyRead(r)
              THEN decoded(arrived) ELSE arrived
        reading == [st EXCEPT !.resp = r.resp,
                              !.pc = IF @ = "await_news" THEN "read_news"
                                     ELSE "read_openai"]
    IN  IF st.pc \notin {"await_news", "await_openai"} THEN st
        ELSE IF r.reply = NoReply
        THEN (IF r.resp = 0 THEN st ELSE reading)
        ELSE IF st.pc = "await_news"
        THEN newsReplied(IF r.reply.kind = "neterr" THEN st ELSE reading, r.reply)
        ELSE openAIReplied(IF r.reply.kind = "resp"
                              /\ readsOpenAIBody(st, r.reply.status)
                           THEN reading ELSE st, r.reply)

\* C18: with two requests in flight, in every interleaving, the upstream
\* call, the log and the response of each request are what that request,
\* handled alone with the same upstream answer, gives; and no handler
\* step changes the configuration.
C18_RequestsIsolated ==
    /\ proc = "serving" => (deployment = "mux" => config = loadConfig(startEnv))
    /\ \A s \in DOMAIN reqs :
          Accepted(reqs[s]) => reqs[s] = Alone(reqs[s])

\* C18 witness: two transform requests with different titles in flight at
\* once, one answered and one waiting, each with its own prompt.
C18_Witness ==
    \E s, t \in DOMAIN reqs :
        /\ s # t
        /\ reqs[s].handler \in TransformHandlers
        /\ reqs[t].handler \in TransformHandlers
        /\ reqs[s].body = PlainBody
        /\ reqs[t].body = OtherBody
        /\ reqs[s].pc = "done"
        /\ reqs[s].respBody.kind = "transform"
        /\ reqs[t].pc = "await_openai"
        /\ reqs[s].calls[1].messages = transformMessages(<<"a">>, EmptyStr)
        /\ reqs[t].calls[1].messages = transformMessages(<<"=">>, <<"a">>)

\* Every upstream call eventually returns or fails, the read of its body
\* included: the premise of C19.
UpstreamsAnswer ==
    \A s \in ConcSlots :
        /\ WF_vars(\E out \in EnvNewsOutcomes : NewsReply(s, out))
        /\ WF_vars(\E out \in EnvNewsOutcomes : NewsBody(s, out))
        /\ WF_vars(\E out \in ConcOpenAIOutcomes : OpenAIReply(s, out))
        /\ WF_vars(\E out \in ConcOpenAIOutcomes : OpenAIBody(s, out))

SpecLive == SpecConc /\ UpstreamsAnswer

\* Every client eventually sends the body of its request.
ClientsSend == \A s \in ConcSlots : WF_vars(Decoded(s))

\* The request waits for an upstream: for the call to return, or for the
\* body of the answer.
Waiting(r) == r.pc \in {"await_news", "read_news", "await_openai", "read_openai"}

\* What holds of a request at every moment: while it waits for the
\* client's body or for its upstream nothing has been written; once it
\* has ended, exactly one response has been written, with a status and a
\* body kind, after the upstream answered if one was called, with an
\* error message when the status is 4xx or 5xx and with status 200 when
\* the body is a result.
OneResponse(r) ==
    /\ Accepted(r) => (~BodyRead(r) \/ Waiting(r) \/ r.pc = "done")
    /\ ~BodyRead(r)
       => /\ r.writes = 0 /\ r.status = 0 /\ r.respBody = NoResponse
          /\ r.calls = <<>> /\ r.reply = NoReply
    /\ Waiting(r)
       => /\ r.writes = 0 /\ r.status = 0 /\ r.respBody = NoResponse
          /\ Len(r.calls) = 1 /\ r.reply = NoReply
    /\ r.pc = "done"
       => /\ r.writes = 1
          /\ r.status # 0
          /\ r.respBody.kind # "none"
          /\ r.calls # <<>> => r.reply # NoReply
          /\ r.status >= 400 => r.respBody.kind = "error"
          /\ r.respBody.kind \in {"news", "transform", "health"} => r.status = 200

\* C19 (amended): every request gets exactly one response, those that
\* wait for an upstream as soon as that upstream has returned or failed,
\* never before, and no handler ends without a response or writes a
\* second one; eventually, provided that every upstream call returns or
\* fails and that the client sends the body of its request.
C19_EveryRequestAnswered ==
    /\ [](\A s \in ConcSlots : OneResponse(reqs[s]))
    /\ \A s \in ConcSlots : Waiting(reqs[s]) ~> (reqs[s].pc = "done")
    /\ ClientsSend
       => \A s \in ConcSlots : Accepted(reqs[s]) ~> (reqs[s].pc = "done")

\* C19 as claimed: every accepted request is eventually answered, provided
\* only that every upstream call it makes returns or fails.
C19_AnsweredWithoutPremise ==
    \A s \in ConcSlots : Accepted(reqs[s]) ~> (reqs[s].pc = "done")

\* C19 witness: a search request answered 500 with one write after its
\* upstream call failed, while the other request still waits.
C19_Witness ==
    \E s, t \in DOMAIN reqs :
        /\ s # t
        /\ reqs[s].handler \in SearchHandlers
        /\ reqs[s].pc = "done"
        /\ reqs[s].reply # NoReply
        /\ reqs[s].reply.kind = "neterr"
        /\ reqs[s].status = 500
        /\ reqs[s].writes = 1
        /\ Waiting(reqs[t])

=============================================================================
